---- MODULE Spec2Model ----
(***************************************************************************)
(* Model of the plaster-effect renderer (utils/plaster-effect) and of the  *)
(* page that drives it (app/page).                                         *)
(*                                                                         *)
(* Numbers.  The code computes in IEEE doubles and stores fields in        *)
(* Float32Array.  Here a grey level is an integer count of 1/U of a level, *)
(* a quantity of the unit interval is an integer count of 1/NORM, and      *)
(* every product or quotient is rounded to that grid as the float          *)
(* arithmetic rounds to its own.  The crop rectangle is computed in exact  *)
(* rationals [n, d].                                                       *)
(***************************************************************************)
EXTENDS Integers, Sequences, FiniteSets, TLC

VARIABLES
  settings,          \* Page: useState(defaultSettings)
  sourceImage,       \* Page: useState<HTMLImageElement | null>
  status,            \* Page: status.tone
  processedPreview,  \* Page: data URL of the last finished render, or null
  canvas,            \* the 2D surface: pixel index -> [r, g, b, a]
  ctxMode,           \* the context's globalCompositeOperation between calls
  pending,           \* image loads in flight (createImageElement promises)
  lastAction,        \* most recent user action on the source image, and the
                     \* number of selections made before the most recent reset
  call,              \* the last renderPlasterEffect call: arguments, outcome, locals
  pc,                \* position of the function-level harnesses
  arg,               \* their input
  res                \* their result

vars == <<settings, sourceImage, status, processedPreview, canvas, ctxMode,
          pending, lastAction, call, pc, arg, res>>

pageVars == <<settings, sourceImage, status, processedPreview, canvas, ctxMode,
              pending, lastAction, call>>

fnVars == <<pc, arg, res>>

(***************************************************************************)
(* Arithmetic helpers                                                      *)
(***************************************************************************)
Abs(x) == IF x < 0 THEN -x ELSE x

Min2(a, b) == IF a < b THEN a ELSE b

Max2(a, b) == IF a > b THEN a ELSE b

\* const clamp = (value, min, max) => Math.min(max, Math.max(min, value))
clamp(value, min, max) == Min2(max, Max2(min, value))

\* a / b rounded to the nearest grid point (b > 0), ties upward
RoundDiv(a, b) == (2 * a + b) \div (2 * b)

\* Math.round on a quotient a / b (b > 0): nearest integer, ties upward
MathRound(a, b) == (2 * a + b) \div (2 * b)

RECURSIVE SqrtSearch(_, _, _)
SqrtSearch(x, lo, hi) ==
  IF lo >= hi THEN lo
  ELSE LET mid == (lo + hi + 1) \div 2
       IN IF mid * mid <= x THEN SqrtSearch(x, mid, hi)
                            ELSE SqrtSearch(x, lo, mid - 1)

\* Math.sqrt on the grid: the largest r with r * r <= x
ISqrt(x) == SqrtSearch(x, 0, Min2(x, 46340))

RECURSIVE GCD(_, _)
GCD(a, b) == IF b = 0 THEN a ELSE GCD(b, a % b)

\* exact rationals, kept in lowest terms with a positive denominator
Rat(n, d) ==
  LET s == IF d < 0 THEN -1 ELSE 1
      g == GCD(Abs(n), Abs(d))
  IN [n |-> (s * n) \div g, d |-> (s * d) \div g]

RInt(k) == [n |-> k, d |-> 1]

RMul(p, q) == Rat(p.n * q.n, p.d * q.d)

RDiv(p, q) == Rat(p.n * q.d, p.d * q.n)

RAdd(p, q) == Rat(p.n * q.d + q.n * p.d, p.d * q.d)

RSub(p, q) == Rat(p.n * q.d - q.n * p.d, p.d * q.d)

RLess(p, q) == p.n * q.d < q.n * p.d

RLeq(p, q) == p.n * q.d <= q.n * p.d

RFloor(p) == p.n \div p.d

(***************************************************************************)
(* Output frame.  The program renders 900 x 1200; the model keeps the 3:4  *)
(* frame at a size TLC can enumerate.                                      *)
(***************************************************************************)
OUTPUT_WIDTH == 3

OUTPUT_HEIGHT == 4

(***************************************************************************)
(* cropToAspect                                                            *)
(***************************************************************************)
cropBeforeZoom_swapped(width, height, aspectRatio) ==
  LET ratio == Rat(width, height)
  IN IF RLess(ratio, aspectRatio)
     THEN [cropWidth |-> RMul(RInt(height), aspectRatio), cropHeight |-> RInt(height)]
     ELSE [cropWidth |-> RInt(width), cropHeight |-> RDiv(RInt(width), aspectRatio)]

\* lines 186-194: the crop before the zoom division
cropBeforeZoom(width, height, aspectRatio) ==
  LET ratio == Rat(width, height)
  IN IF RLess(aspectRatio, ratio)
     THEN [cropWidth |-> RMul(RInt(height), aspectRatio), cropHeight |-> RInt(height)]
     ELSE [cropWidth |-> RInt(width), cropHeight |-> RDiv(RInt(width), aspectRatio)]

\* lines 200-203: the crop centred on the source
centredCrop(width, height, cropWidth, cropHeight) ==
  [offsetX |-> RDiv(RSub(RInt(width), cropWidth), RInt(2)),
   offsetY |-> RDiv(RSub(RInt(height), cropHeight), RInt(2)),
   cropWidth |-> cropWidth, cropHeight |-> cropHeight]

cropToAspect_unclampedZoom(width, height, aspectRatio, zoomFactor) ==
  LET pre == cropBeforeZoom(width, height, aspectRatio)
      zoom == RAdd(Rat(zoomFactor, 100), RInt(1))
  IN centredCrop(width, height, RDiv(pre.cropWidth, zoom), RDiv(pre.cropHeight, zoom))

cropToAspect(width, height, aspectRatio, zoomFactor) ==
  LET pre == cropBeforeZoom(width, height, aspectRatio)
      zoom == RAdd(Rat(clamp(zoomFactor, 0, 60), 100), RInt(1))
  IN centredCrop(width, height, RDiv(pre.cropWidth, zoom), RDiv(pre.cropHeight, zoom))

(***************************************************************************)
(* Number grids                                                            *)
(***************************************************************************)
\* grid steps per grey level of a Float32Array sample
U == 10

\* grid steps per 1 of a quantity of the unit interval
NORM == 1000

\* grid steps per 1 of a normalised kernel weight
KW == 100000

\* an array holds its samples: each one is computed once, when it is built
Stored(f) == f @@ <<>>

\* sum of f[0..n]
RECURSIVE SumTo(_, _)
SumTo(f, n) == IF n < 0 THEN 0 ELSE f[n] + SumTo(f, n - 1)

RECURSIVE MinTo(_, _)
MinTo(f, n) == IF n = 0 THEN f[0] ELSE Min2(f[n], MinTo(f, n - 1))

RECURSIVE MaxTo(_, _)
MaxTo(f, n) == IF n = 0 THEN f[0] ELSE Max2(f[n], MaxTo(f, n - 1))

\* number of samples of a field indexed 0..n-1
Length(f) == Cardinality(DOMAIN f)

(***************************************************************************)
(* Tone helpers                                                            *)
(***************************************************************************)
\* value and contrast on the U grid; factor on the NORM grid
contrastTransform_inverted(value, contrast) ==
  LET factor == RoundDiv(259 * (contrast + 255 * U) * NORM, 255 * (259 * U - contrast))
  IN clamp(RoundDiv(factor * (128 * U - value), NORM) + 128 * U, 0, 255 * U)

contrastTransform(value, contrast) ==
  LET factor == RoundDiv(259 * (contrast + 255 * U) * NORM, 255 * (259 * U - contrast))
  IN clamp(RoundDiv(factor * (value - 128 * U), NORM) + 128 * U, 0, 255 * U)

\* base and blend on the U grid
softLight(base, blend) ==
  LET b == RoundDiv(base * NORM, 255 * U)
      c == RoundDiv(blend * NORM, 255 * U)
      result == IF 2 * c < NORM
                THEN RoundDiv(2 * b * c, NORM)
                     + RoundDiv(b * b * (NORM - 2 * c), NORM * NORM)
                ELSE RoundDiv(2 * b * (NORM - c), NORM)
                     + RoundDiv(ISqrt(b * NORM) * (2 * c - NORM), NORM)
  IN clamp(RoundDiv(result * 255 * U, NORM), 0, 255 * U)

(***************************************************************************)
(* applySobel                                                              *)
(***************************************************************************)
kernelX == <<-1, 0, 1, -2, 0, 2, -1, 0, 1>>

kernelY == <<-1, -2, -1, 0, 0, 0, 1, 2, 1>>

applySobel(map, width, height) ==
  Stored([i \in DOMAIN map |->
     LET x == i % width
         y == i \div width
     IN IF x < 1 \/ x >= width - 1 \/ y < 1 \/ y >= height - 1
        THEN 0
        ELSE LET sample(j) == map[(y + ((j - 1) \div 3) - 1) * width + (x + ((j - 1) % 3) - 1)]
                 gxs == [j \in 0..8 |-> sample(j + 1) * kernelX[j + 1]]
                 gys == [j \in 0..8 |-> sample(j + 1) * kernelY[j + 1]]
                 gx == SumTo(gxs, 8)
                 gy == SumTo(gys, 8)
             IN ISqrt(gx * gx + gy * gy)])

(***************************************************************************)
(* gaussianBlur                                                            *)
(***************************************************************************)
\* Math.exp(-(x * x) / (2 * radius * radius)) in ten-thousandths, |x| <= radius
ExpTable ==
  << <<10000, 6065>>,
     <<10000, 8825, 6065>>,
     <<10000, 9460, 8007, 6065>>,
     <<10000, 9692, 8825, 7548, 6065>>,
     <<10000, 9802, 9231, 8353, 7261, 6065>>,
     <<10000, 9862, 9460, 8825, 8007, 7066, 6065>>,
     <<10000, 9898, 9600, 9123, 8494, 7748, 6926, 6065>>,
     <<10000, 9922, 9692, 9321, 8825, 8226, 7548, 6819, 6065>> >>

MathExp(x, radius) == ExpTable[radius][Abs(x) + 1]

\* lines 112-125: the normalised kernel, index 0..2*radius
gaussKernel(radius) ==
  LET kernelSize == radius * 2 + 1
      raw == [i \in 0..(kernelSize - 1) |-> MathExp(i - radius, radius)]
      kernelSum == SumTo(raw, kernelSize - 1)
  IN [i \in 0..(kernelSize - 1) |-> RoundDiv(raw[i] * KW, kernelSum)]

\* taps outside the field contribute nothing instead of the border sample
gaussianBlur_zeroPad(source, width, height, radius) ==
  IF radius <= 0 THEN source
  ELSE
    LET kernel == gaussKernel(radius)
        horizontal ==
          Stored([i \in DOMAIN source |->
             LET x == i % width
                 y == i \div width
                 taps == [j \in 0..(2 * radius) |->
                            IF x + j - radius < 0 \/ x + j - radius > width - 1 THEN 0
                            ELSE source[y * width + x + j - radius] * kernel[j]]
             IN RoundDiv(SumTo(taps, 2 * radius), KW)])
        vertical ==
          Stored([i \in DOMAIN source |->
             LET x == i % width
                 y == i \div width
                 taps == [j \in 0..(2 * radius) |->
                            IF y + j - radius < 0 \/ y + j - radius > height - 1 THEN 0
                            ELSE horizontal[(y + j - radius) * width + x] * kernel[j]]
             IN RoundDiv(SumTo(taps, 2 * radius), KW)])
    IN vertical

gaussianBlur(source, width, height, radius) ==
  IF radius <= 0 THEN source
  ELSE
    LET kernel == gaussKernel(radius)
        horizontal ==
          Stored([i \in DOMAIN source |->
             LET x == i % width
                 y == i \div width
                 taps == [j \in 0..(2 * radius) |->
                            source[y * width + clamp(x + j - radius, 0, width - 1)] * kernel[j]]
             IN RoundDiv(SumTo(taps, 2 * radius), KW)])
        vertical ==
          Stored([i \in DOMAIN source |->
             LET x == i % width
                 y == i \div width
                 taps == [j \in 0..(2 * radius) |->
                            horizontal[clamp(y + j - radius, 0, height - 1) * width + x] * kernel[j]]
             IN RoundDiv(SumTo(taps, 2 * radius), KW)])
    IN vertical

(***************************************************************************)
(* normaliseArray: source on the U grid, result on the NORM grid           *)
(***************************************************************************)
\* divides by the range without subtracting the minimum
normaliseArray_noOffset(source) ==
  LET n == Length(source)
      min == MinTo(source, n - 1)
      max == MaxTo(source, n - 1)
      range == IF max - min # 0 THEN max - min ELSE U
  IN Stored([i \in DOMAIN source |-> RoundDiv(source[i] * NORM, range)])

normaliseArray(source) ==
  LET n == Length(source)
      min == MinTo(source, n - 1)
      max == MaxTo(source, n - 1)
      range == IF max - min # 0 THEN max - min ELSE U
  IN Stored([i \in DOMAIN source |-> RoundDiv((source[i] - min) * NORM, range)])

(***************************************************************************)
(* The 2D drawing surface.  A pixel is [r, g, b, a] in bytes; geometry is  *)
(* on a grid of 1/GEO of a pixel.  Rectangle edges that fall inside a      *)
(* pixel cover it partially; a gradient is evaluated at the pixel centre.  *)
(***************************************************************************)
GEO == 100

Pixels == 0..(OUTPUT_WIDTH * OUTPUT_HEIGHT - 1)

PX(i) == i % OUTPUT_WIDTH

PY(i) == i \div OUTPUT_WIDTH

Transparent == [r |-> 0, g |-> 0, b |-> 0, a |-> 0]

\* a canvas element starts as transparent black
BlankCanvas == [i \in Pixels |-> Transparent]

RGBA(r, g, b, a) == [r |-> r, g |-> g, b |-> b, a |-> a]

\* the alpha byte of a CSS colour rgba(r,g,b,num/den)
CssAlpha(num, den) == clamp(RoundDiv(num * 255, den), 0, 255)

\* globalCompositeOperation = "source-over"
SourceOver(src, dst) ==
  LET oa == src.a + RoundDiv(dst.a * (255 - src.a), 255)
      ch(sc, dc) == RoundDiv(sc * src.a * 255 + dc * dst.a * (255 - src.a), oa * 255)
  IN IF oa = 0 THEN Transparent
     ELSE [r |-> ch(src.r, dst.r), g |-> ch(src.g, dst.g), b |-> ch(src.b, dst.b), a |-> oa]

\* globalCompositeOperation = "multiply"
Multiply(src, dst) ==
  LET mix(sc, dc) == RoundDiv((255 - dst.a) * sc + dst.a * RoundDiv(sc * dc, 255), 255)
  IN SourceOver([r |-> mix(src.r, dst.r), g |-> mix(src.g, dst.g),
                 b |-> mix(src.b, dst.b), a |-> src.a], dst)

Composite(mode, src, dst) ==
  IF mode = "multiply" THEN Multiply(src, dst) ELSE SourceOver(src, dst)

\* colour of a gradient at t (NORM grid); stops = sequence of [pos, color]
RECURSIVE GradientAt(_, _, _)
GradientAt(stops, t, k) ==
  IF t <= stops[1].pos THEN stops[1].color
  ELSE IF k >= Len(stops) THEN stops[Len(stops)].color
  ELSE IF t <= stops[k + 1].pos
  THEN LET p0 == stops[k].pos
           p1 == stops[k + 1].pos
           c0 == stops[k].color
           c1 == stops[k + 1].color
           lerp(a, b) == a + RoundDiv((b - a) * (t - p0), p1 - p0)
       IN [r |-> lerp(c0.r, c1.r), g |-> lerp(c0.g, c1.g),
           b |-> lerp(c0.b, c1.b), a |-> lerp(c0.a, c1.a)]
  ELSE GradientAt(stops, t, k + 1)

\* createLinearGradient(x0, y0, x1, y1): position of pixel i along the axis
LinearT(x0, y0, x1, y1, i) ==
  LET dx == x1 - x0
      dy == y1 - y0
      px == PX(i) * GEO + GEO \div 2
      py == PY(i) * GEO + GEO \div 2
  IN clamp(RoundDiv(((px - x0) * dx + (py - y0) * dy) * NORM, dx * dx + dy * dy), 0, NORM)

\* createRadialGradient(cx, cy, r0, cx, cy, r1): position of pixel i
RadialT(cx, cy, r0, r1, i) ==
  LET px == PX(i) * GEO + GEO \div 2
      py == PY(i) * GEO + GEO \div 2
      dist == ISqrt((px - cx) * (px - cx) + (py - cy) * (py - cy))
  IN clamp(RoundDiv((dist - r0) * NORM, r1 - r0), 0, NORM)

\* length of the overlap of pixel column/row p with [lo, hi)
Cover(lo, hi, p) == Max2(0, Min2(hi, (p + 1) * GEO) - Max2(lo, p * GEO))

\* createLinearGradient(x0, y0, x1, y1) with its colour stops
createLinearGradient(x0, y0, x1, y1, stops) ==
  [kind |-> "linear", x0 |-> x0, y0 |-> y0, x1 |-> x1, y1 |-> y1, r0 |-> 0, r1 |-> 0,
   stops |-> stops]

\* createRadialGradient(cx, cy, r0, cx, cy, r1) with its colour stops
createRadialGradient(cx, cy, r0, r1, stops) ==
  [kind |-> "radial", x0 |-> cx, y0 |-> cy, x1 |-> cx, y1 |-> cy, r0 |-> r0, r1 |-> r1,
   stops |-> stops]

\* colour of a gradient fillStyle at the centre of pixel i
StyleAt(style, i) ==
  GradientAt(style.stops,
             IF style.kind = "linear"
             THEN LinearT(style.x0, style.y0, style.x1, style.y1, i)
             ELSE RadialT(style.x0, style.y0, style.r0, style.r1, i),
             1)

\* fillRect(x, y, w, h) with the given fillStyle
fillRect(surface, mode, fillStyle, x, y, w, h) ==
  Stored([i \in Pixels |->
     LET cov == Cover(x, x + w, PX(i)) * Cover(y, y + h, PY(i))
         col == StyleAt(fillStyle, i)
     IN IF cov = 0 THEN surface[i]
        ELSE Composite(mode, [col EXCEPT !.a = RoundDiv(col.a * cov, GEO * GEO)], surface[i])])

clearRect_skipped(surface) == surface

\* clearRect(0, 0, width, height)
clearRect(surface) == Stored([i \in Pixels |-> Transparent])

\* drawImage(source, sx, sy, sw, sh, 0, 0, width, height): each output pixel
\* takes the source pixel under its centre
drawImage(surface, mode, source, crop) ==
  Stored([i \in Pixels |->
     LET fx == RAdd(crop.offsetX,
                    RMul(Rat(2 * PX(i) + 1, 2 * OUTPUT_WIDTH), crop.cropWidth))
         fy == RAdd(crop.offsetY,
                    RMul(Rat(2 * PY(i) + 1, 2 * OUTPUT_HEIGHT), crop.cropHeight))
         sx == clamp(RFloor(fx), 0, source.width - 1)
         sy == clamp(RFloor(fy), 0, source.height - 1)
     IN Composite(mode, source.data[sy * source.width + sx], surface[i])])

\* storing a number into a Uint8ClampedArray: nearest byte, ties to even
ToUint8Clamped(value) ==
  LET q == value \div U
      rem == value % U
      rounded == IF 2 * rem < U THEN q
                 ELSE IF 2 * rem > U THEN q + 1
                 ELSE IF q % 2 = 0 THEN q ELSE q + 1
  IN clamp(rounded, 0, 255)

\* line 216: width / height
AspectRatio == Rat(OUTPUT_WIDTH, OUTPUT_HEIGHT)

(***************************************************************************)
(* renderPlasterEffect                                                     *)
(***************************************************************************)
\* line 224: clamp(settings.backgroundLift, 0, 100), in percent
backgroundLift(s) == clamp(s.backgroundLift, 0, 100)

\* line 256
blurRadius(s) == MathRound(clamp(s.smoothness, 0, 100), 18)

\* line 265, NORM grid
detailStrength(s) == RoundDiv(clamp(s.microDetail, 0, 100) * NORM, 100)

\* line 270, NORM grid
depthStrength(s) == RoundDiv(clamp(s.depth, 0, 100) * NORM, 100)

\* line 271, NORM grid
sheenStrength(s) == RoundDiv(clamp(s.sheen, 0, 100) * NORM, 100)

\* line 272, NORM grid
matteStrength(s) == RoundDiv(clamp(s.matte, 0, 100) * NORM, 100)

luminosityShift_unclamped(s) == RoundDiv(s.luminosity * 15 * U, 50)

\* line 273, U grid
luminosityShift(s) == RoundDiv(clamp(s.luminosity, -50, 50) * 15 * U, 50)

\* line 305, in percent
vignetteStrength(s) == clamp(s.vignette, 0, 100)

\* the stand height taken as given
standPercent_unclamped(s) == s.standHeight

\* line 324, in percent
standPercent(s) == clamp(s.standHeight, 10, 45)

\* lines 249-254: luminance of an RGBA buffer, U grid
luminanceOf(data) ==
  Stored([i \in DOMAIN data |->
     RoundDiv((data[i].r * 299 + data[i].g * 587 + data[i].b * 114) * U, 1000)])

\* lines 288-291: the sheen on a highlight, U grid
boost(value, s) ==
  IF value > 210 * U
  THEN clamp(softLight(value, value + RoundDiv((value - 210 * U) * 8 * sheenStrength(s), 10 * NORM)),
             0, 255 * U)
  ELSE value

\* lines 293-296: the matte lift of a shadow, U grid
liftShadows(value, s) ==
  IF value < 80 * U
  THEN clamp(value + RoundDiv((80 * U - value) * 6 * matteStrength(s), 10 * NORM), 0, 255 * U)
  ELSE value

\* the tone loop with the additions left unclamped
toneMap_unclamped(smoothedValue, detail, sobel, s) ==
  LET v1 == contrastTransform(smoothedValue, 30 * U + RoundDiv(depthStrength(s) * 90 * U, NORM))
      v2 == clamp(v1 + luminosityShift(s), 0, 255 * U)
      micro == RoundDiv((detail - NORM \div 2) * 80 * detailStrength(s) * U, NORM * NORM)
      v3 == v2 + micro
      contour == RoundDiv((sobel - (4 * NORM) \div 10) * 140 * depthStrength(s) * U, NORM * NORM)
      v4 == v3 + contour
      v5 == IF v4 > 210 * U
            THEN LET gain == RoundDiv((v4 - 210 * U) * 8 * sheenStrength(s), 10 * NORM)
                 IN clamp(softLight(v4, v4 + gain), 0, 255 * U)
            ELSE v4
      v6 == IF v5 < 80 * U
            THEN LET lifted == RoundDiv((80 * U - v5) * 6 * matteStrength(s), 10 * NORM)
                 IN v5 + lifted
            ELSE v5
  IN v6

\* lines 276-296: the value of one pixel, from its smoothed luminance (U
\* grid) and its normalised detail and Sobel samples (NORM grid)
toneMap(smoothedValue, detail, sobel, s) ==
  LET v1 == contrastTransform(smoothedValue, 30 * U + RoundDiv(depthStrength(s) * 90 * U, NORM))
      v2 == clamp(v1 + luminosityShift(s), 0, 255 * U)
      micro == RoundDiv((detail - NORM \div 2) * 80 * detailStrength(s) * U, NORM * NORM)
      v3 == clamp(v2 + micro, 0, 255 * U)
      contour == RoundDiv((sobel - (4 * NORM) \div 10) * 140 * depthStrength(s) * U, NORM * NORM)
      v4 == clamp(v3 + contour, 0, 255 * U)
  IN liftShadows(boost(v4, s), s)

\* lines 223-226
backgroundStops(s) ==
  << [pos |-> 0, color |-> RGBA(250, 250, 247, CssAlpha(8500 + backgroundLift(s) * 10, 10000))],
     [pos |-> NORM, color |-> RGBA(242, 242, 236, CssAlpha(9000 + backgroundLift(s) * 8, 10000))] >>

\* the gradient already tinted at its inner radius
vignetteStops_tintedCentre(s) ==
  << [pos |-> 0, color |-> RGBA(210, 210, 205, CssAlpha(35 * vignetteStrength(s), 10000))],
     [pos |-> NORM, color |-> RGBA(210, 210, 205, CssAlpha(35 * vignetteStrength(s), 10000))] >>

\* lines 315-319
vignetteStops(s) ==
  << [pos |-> 0, color |-> RGBA(255, 255, 255, 0)],
     [pos |-> NORM, color |-> RGBA(210, 210, 205, CssAlpha(35 * vignetteStrength(s), 10000))] >>

\* lines 331-333
standStops ==
  << [pos |-> 0, color |-> RGBA(255, 255, 255, 255)],
     [pos |-> NORM \div 2, color |-> RGBA(243, 243, 241, 255)],
     [pos |-> NORM, color |-> RGBA(228, 228, 223, 255)] >>

\* lines 344-347
standShadowStops ==
  << [pos |-> 0, color |-> RGBA(0, 0, 0, CssAlpha(12, 100))],
     [pos |-> NORM \div 4, color |-> RGBA(0, 0, 0, CssAlpha(5, 100))],
     [pos |-> (3 * NORM) \div 4, color |-> RGBA(0, 0, 0, CssAlpha(2, 100))],
     [pos |-> NORM, color |-> RGBA(0, 0, 0, CssAlpha(14, 100))] >>

\* lines 360-362
baseShadowStops ==
  << [pos |-> 0, color |-> RGBA(0, 0, 0, CssAlpha(18, 100))],
     [pos |-> (7 * NORM) \div 10, color |-> RGBA(0, 0, 0, CssAlpha(5, 100))],
     [pos |-> NORM, color |-> RGBA(0, 0, 0, 0)] >>

\* lines 324-328: the pedestal rectangle, GEO grid
standRect(s) ==
  LET height == OUTPUT_HEIGHT * GEO
      width == OUTPUT_WIDTH * GEO
      standHeight == RoundDiv(height * standPercent(s), 100)
      standWidth == RoundDiv(width * (36 * NORM + 8 * depthStrength(s)), 100 * NORM)
  IN [x |-> RoundDiv(width, 2) - RoundDiv(standWidth, 2),
      y |-> height - standHeight,
      w |-> standWidth,
      h |-> standHeight]

\* lines 219-228: the frame cleared and filled with the background gradient
fillBackground(surface, mode, s) ==
  fillRect(clearRect(surface), mode,
           createLinearGradient(0, 0, 0, OUTPUT_HEIGHT * GEO, backgroundStops(s)),
           0, 0, OUTPUT_WIDTH * GEO, OUTPUT_HEIGHT * GEO)

\* lines 258-301: the detail and contour fields and the tone loop
toneLoop(luminance, smoothed, s) ==
  LET detailSource == Stored([i \in Pixels |-> luminance[i] - smoothed[i]])
      normalisedDetail == normaliseArray(detailSource)
      sobelMap == applySobel(smoothed, OUTPUT_WIDTH, OUTPUT_HEIGHT)
      normalisedSobel == normaliseArray(sobelMap)
  IN [normalisedDetail |-> normalisedDetail,
      normalisedSobel |-> normalisedSobel,
      tone |-> Stored([i \in Pixels |->
                 toneMap(smoothed[i], normalisedDetail[i], normalisedSobel[i], s)])]

\* lines 298-303: the tone written to the three colour bytes of each pixel of
\* the image data read at line 245, and the image data put back
putImageData(fields, drawn) ==
  [normalisedDetail |-> fields.normalisedDetail,
   normalisedSobel |-> fields.normalisedSobel,
   tone |-> fields.tone,
   data |-> Stored([i \in Pixels |->
              RGBA(ToUint8Clamped(fields.tone[i]), ToUint8Clamped(fields.tone[i]),
                   ToUint8Clamped(fields.tone[i]), drawn[i].a)])]

\* lines 245-303: from getImageData to putImageData
processPixels(drawn, s) ==
  LET luminance == luminanceOf(drawn)
  IN putImageData(toneLoop(luminance,
                           gaussianBlur(luminance, OUTPUT_WIDTH, OUTPUT_HEIGHT, blurRadius(s)),
                           s),
                  drawn)

\* lines 305-322
vignette(surface, mode, s) ==
  IF vignetteStrength(s) > 0
  THEN fillRect(surface, mode,
                createRadialGradient((OUTPUT_WIDTH * GEO) \div 2,
                                     (OUTPUT_HEIGHT * GEO * 55) \div 100,
                                     (OUTPUT_WIDTH * GEO * 25) \div 100,
                                     (Max2(OUTPUT_WIDTH, OUTPUT_HEIGHT) * GEO * 70) \div 100,
                                     vignetteStops(s)),
                0, 0, OUTPUT_WIDTH * GEO, OUTPUT_HEIGHT * GEO)
  ELSE surface

\* lines 330-336
stand(surface, mode, st) ==
  fillRect(surface, mode,
           createLinearGradient(st.x, st.y, st.x, st.y + st.h, standStops),
           st.x, st.y, st.w, st.h)

\* lines 338-351
standShadow(surface, st) ==
  fillRect(surface, "multiply",
           createLinearGradient(st.x, st.y, st.x + st.w, st.y + st.h, standShadowStops),
           st.x, st.y, st.w, st.h)

\* lines 353-364
baseShadow(surface, basePad) ==
  fillRect(surface, "source-over",
           createLinearGradient(0, OUTPUT_HEIGHT * GEO - basePad, 0, OUTPUT_HEIGHT * GEO,
                                baseShadowStops),
           0, OUTPUT_HEIGHT * GEO - basePad, OUTPUT_WIDTH * GEO, basePad)

\* a call that threw: what it had drawn stays on the surface
Thrown(surface, mode) ==
  [threw |-> TRUE, canvas |-> surface, mode |-> mode,
   normalisedDetail |-> <<>>, normalisedSobel |-> <<>>, tone |-> <<>>, data |-> <<>>]

\* a call that returned: the image data with the overlays drawn on it, the
\* composite mode restored
Returned(pixels, mode, s) ==
  [threw |-> FALSE,
   canvas |-> baseShadow(standShadow(stand(vignette(pixels.data, mode, s), mode, standRect(s)),
                                     standRect(s)),
                         RoundDiv(OUTPUT_HEIGHT * GEO * 4, 100)),
   mode |-> mode,
   normalisedDetail |-> pixels.normalisedDetail, normalisedSobel |-> pixels.normalisedSobel,
   tone |-> pixels.tone, data |-> pixels.data]

\* lines 230-367, on the frame filled with the background
drawAndProcess(filled, mode, source, s, fault) ==
  IF fault = "drawImage" THEN Thrown(filled, mode)
  ELSE LET drawn == drawImage(filled, mode, source,
                              cropToAspect(source.width, source.height, AspectRatio, s.macroZoom))
       IN IF fault = "getImageData" THEN Thrown(drawn, mode)
          ELSE Returned(processPixels(drawn, s), mode, s)

\* The call on a surface holding `surface`, with the context's composite
\* mode `mode`.  fault names the drawing call that throws, if any.
renderPlasterEffect(surface, mode, source, s, fault) ==
  drawAndProcess(fillBackground(surface, mode, s), mode, source, s, fault)

(***************************************************************************)
(* Page state at construction                                              *)
(***************************************************************************)
Null == "null"

\* sourceImage = null: no image is held
NoImage == [sel |-> 0, data |-> [width |-> 0, height |-> 0, data |-> <<>>]]

\* processedPreview = null: nothing to show
NoPreview == <<>>

defaultSettings ==
  [depth |-> 62, luminosity |-> 8, sheen |-> 68, matte |-> 40, smoothness |-> 32,
   microDetail |-> 48, backgroundLift |-> 72, macroZoom |-> 18, standHeight |-> 24,
   vignette |-> 36]

NoCall ==
  [outcome |-> "none", fault |-> "none", source |-> NoImage.data, settings |-> defaultSettings,
   normalisedDetail |-> <<>>, normalisedSobel |-> <<>>, tone |-> <<>>, data |-> <<>>]

\* what the model keeps of a call: its arguments, its outcome r and the
\* locals of a call that returned
CallRecord(r, source, s, fault) ==
  [outcome |-> IF r.threw THEN "threw" ELSE "ok",
   fault |-> fault, source |-> source, settings |-> s,
   normalisedDetail |-> r.normalisedDetail, normalisedSobel |-> r.normalisedSobel,
   tone |-> r.tone, data |-> r.data]

PageInit ==
  /\ settings = defaultSettings
  /\ sourceImage = NoImage
  /\ status = "idle"
  /\ processedPreview = NoPreview
  /\ canvas = BlankCanvas
  /\ ctxMode = "source-over"
  /\ pending = {}
  /\ lastAction = [kind |-> "none", sel |-> 0, resetAt |-> 0]
  /\ call = NoCall

(***************************************************************************)
(* Function-level specifications: Init draws the input, one step applies   *)
(* the function.                                                           *)
(***************************************************************************)
MaxDim == 6

ZoomValues == {-20, 0, 18, 40, 60, 90}

InitCrop ==
  /\ PageInit
  /\ pc = "crop"
  /\ arg \in [width : 1..MaxDim, height : 1..MaxDim, zoomFactor : ZoomValues]
  /\ res = Null

CropStep ==
  /\ pc = "crop"
  /\ res' = [pre |-> cropBeforeZoom(arg.width, arg.height, AspectRatio),
             out |-> cropToAspect(arg.width, arg.height, AspectRatio, arg.zoomFactor)]
  /\ pc' = "cropped"
  /\ UNCHANGED <<arg, pageVars>>

SpecCrop == InitCrop /\ [][CropStep]_vars

\* C5: the rectangle cropToAspect returns lies inside the source, is centred
\* on it, and has the target aspect ratio, for every zoom value.
CropInsideCentredAspect ==
  pc = "cropped" =>
    LET c == res.out
        w == RInt(arg.width)
        h == RInt(arg.height)
    IN /\ RLeq(RInt(0), c.offsetX)
       /\ RLeq(RInt(0), c.offsetY)
       /\ RLeq(RAdd(c.offsetX, c.cropWidth), w)
       /\ RLeq(RAdd(c.offsetY, c.cropHeight), h)
       /\ RAdd(c.offsetX, RDiv(c.cropWidth, RInt(2))) = RDiv(w, RInt(2))
       /\ RAdd(c.offsetY, RDiv(c.cropHeight, RInt(2))) = RDiv(h, RInt(2))
       /\ RDiv(c.cropWidth, c.cropHeight) = AspectRatio

\* a wide source cropped with an out-of-range zoom: the crop is strictly inside
CropWitness ==
  /\ pc = "cropped"
  /\ arg.zoomFactor < 0
  /\ arg.width > arg.height
  /\ RLess(RInt(0), res.out.offsetX)
  /\ res.out.offsetY = RInt(0)

\* C6: before the zoom division only one axis changes: a source wider than
\* the target keeps its height and loses width, a narrower one keeps its
\* width and loses height.
CropOneAxis ==
  pc = "cropped" =>
    LET ratio == Rat(arg.width, arg.height)
        w == RInt(arg.width)
        h == RInt(arg.height)
    IN /\ RLess(AspectRatio, ratio) =>
            res.pre.cropHeight = h /\ RLess(res.pre.cropWidth, w)
       /\ RLess(ratio, AspectRatio) =>
            res.pre.cropWidth = w /\ RLess(res.pre.cropHeight, h)

\* both cases arise: here a narrow source whose height was reduced
CropOneAxisWitness ==
  /\ pc = "cropped"
  /\ RLess(Rat(arg.width, arg.height), AspectRatio)
  /\ res.pre.cropWidth = RInt(arg.width)
  /\ RLess(res.pre.cropHeight, RInt(arg.height))

(***************************************************************************)
(* normaliseArray                                                          *)
(***************************************************************************)
MaxFieldLen == 3

\* samples on the U grid; a detail residual can be negative
SampleValues == {-300, 0, 7, 1280, 2550}

InitNormalise ==
  /\ PageInit
  /\ pc = "normalise"
  /\ arg \in UNION {[0..(n - 1) -> SampleValues] : n \in 1..MaxFieldLen}
  /\ res = Null

NormaliseStep ==
  /\ pc = "normalise"
  /\ res' = normaliseArray(arg)
  /\ pc' = "normalised"
  /\ UNCHANGED <<arg, pageVars>>

SpecNormalise == InitNormalise /\ [][NormaliseStep]_vars

IsConstant(f) == \A i, j \in DOMAIN f : f[i] = f[j]

\* C7: the output of normaliseArray has minimum 0 and maximum 1, unless all
\* input samples are equal, and then every output sample is 0.
NormaliseMinMax ==
  pc = "normalised" =>
    IF IsConstant(arg)
    THEN \A i \in DOMAIN res : res[i] = 0
    ELSE /\ MinTo(res, Length(res) - 1) = 0
         /\ MaxTo(res, Length(res) - 1) = NORM

\* a field with a negative residual and three distinct samples
NormaliseWitness ==
  /\ pc = "normalised"
  /\ Length(arg) = 3
  /\ arg[0] < 0
  /\ \E i \in DOMAIN res : res[i] > 0 /\ res[i] < NORM
  /\ \E i \in DOMAIN res : res[i] = NORM

(***************************************************************************)
(* gaussianBlur                                                            *)
(***************************************************************************)
MaxBlurWidth == 3

MaxBlurHeight == 2

MaxRadius == 2

BlurValues == {0, 1280, 2550}

InitBlur ==
  /\ PageInit
  /\ pc = "blur"
  /\ arg \in UNION {UNION {UNION {
         {[width |-> w, height |-> h, radius |-> r, source |-> f] :
             f \in [0..(w * h - 1) -> BlurValues]} :
           r \in 1..MaxRadius} : h \in 1..MaxBlurHeight} : w \in 1..MaxBlurWidth}
  /\ res = Null

BlurStep ==
  /\ pc = "blur"
  /\ res' = gaussianBlur(arg.source, arg.width, arg.height, arg.radius)
  /\ pc' = "blurred"
  /\ UNCHANGED <<arg, pageVars>>

SpecBlur == InitBlur /\ [][BlurStep]_vars

FieldSum(f) == SumTo(f, Length(f) - 1)

\* rounding allowance: one grid step per sample and pass
SumTolerance(f) == 2 * Length(f)

SumConserved == Abs(FieldSum(res) - FieldSum(arg.source)) <= SumTolerance(arg.source)

\* C8 as stated: for every radius >= 1 the blurred field has the sum of its input
BlurConservesSum == pc = "blurred" => SumConserved

\* C8 amended: the sum is conserved for radius 1, and for any radius when the
\* field is constant; border clamping changes it otherwise.
BlurConservesSumRadiusOne ==
  pc = "blurred" /\ (arg.radius = 1 \/ IsConstant(arg.source)) => SumConserved

\* a non-constant field with a bright border sample, blurred with radius 1
BlurWitness ==
  /\ pc = "blurred"
  /\ arg.radius = 1
  /\ arg.width = 3
  /\ arg.source[0] = 2550
  /\ arg.source[1] = 0
  /\ res[1] > 0
  /\ SumConserved

(***************************************************************************)
(* contrastTransform                                                       *)
(***************************************************************************)
ContrastInputs == {0, 1, 400, 900, 1270, 1279, 1280, 1281, 1600, 2100, 2549, 2550}

\* render passes 30 + depthStrength * 90
ContrastParams == {30 * U, 30 * U + 9 * 62, 75 * U, 120 * U}

InitContrast ==
  /\ PageInit
  /\ pc = "contrast"
  /\ arg \in [v1 : ContrastInputs, v2 : ContrastInputs, contrast : ContrastParams]
  /\ res = Null

ContrastStep ==
  /\ pc = "contrast"
  /\ res' = [t1 |-> contrastTransform(arg.v1, arg.contrast),
             t2 |-> contrastTransform(arg.v2, arg.contrast)]
  /\ pc' = "contrasted"
  /\ UNCHANGED <<arg, pageVars>>

SpecContrast == InitContrast /\ [][ContrastStep]_vars

\* C9: for a fixed contrast parameter in 30..120, contrastTransform is
\* monotonically non-decreasing in its input.
ContrastMonotone ==
  pc = "contrasted" /\ arg.v1 <= arg.v2 => res.t1 <= res.t2

\* two inputs either side of the pivot, neither result clamped
ContrastWitness ==
  /\ pc = "contrasted"
  /\ arg.v1 < 128 * U
  /\ arg.v2 > 128 * U
  /\ 0 < res.t1
  /\ res.t1 < res.t2
  /\ res.t2 < 255 * U

\* largest standHeight the pedestal harness draws
MaxStandHeight == 55

StandHeights == (-5)..MaxStandHeight

DepthValues == {-30, 0, 37, 62, 100, 130}

InitStand ==
  /\ PageInit
  /\ pc = "stand"
  /\ arg \in {[defaultSettings EXCEPT !.standHeight = h, !.depth = d] :
                h \in StandHeights, d \in DepthValues}
  /\ res = Null

\* the pedestal of the drawn settings, and of the same settings with
\* standHeight at its minimum and at its maximum
StandStep ==
  /\ pc = "stand"
  /\ res' = [rect |-> standRect(arg),
             low |-> standRect([arg EXCEPT !.standHeight = 10]),
             high |-> standRect([arg EXCEPT !.standHeight = 45])]
  /\ pc' = "stood"
  /\ UNCHANGED <<arg, pageVars>>

SpecStand == InitStand /\ [][StandStep]_vars

\* C12: the pedestal has height clamp(standHeight,10,45)/100 * OUTPUT_HEIGHT,
\* its bottom edge on the bottom of the frame, and is horizontally centred
\* (to the step of the geometry grid) for every standHeight; at equal depth
\* the pedestals at standHeight 10 and 45 have the same x and width, and
\* heights that differ by 35/100 * OUTPUT_HEIGHT.
PedestalGeometry ==
  pc = "stood" =>
    /\ 100 * res.rect.h = clamp(arg.standHeight, 10, 45) * OUTPUT_HEIGHT * GEO
    /\ res.rect.y + res.rect.h = OUTPUT_HEIGHT * GEO
    /\ Abs(2 * res.rect.x + res.rect.w - OUTPUT_WIDTH * GEO) <= 1
    /\ res.low.x = res.high.x /\ res.rect.x = res.low.x
    /\ res.low.w = res.high.w /\ res.rect.w = res.low.w
    /\ 100 * (res.high.h - res.low.h) = 35 * OUTPUT_HEIGHT * GEO

\* a standHeight above its range with a depth other than the default: the
\* pedestal is the one of standHeight 45, taller than the one of 10
PedestalWitness ==
  /\ pc = "stood"
  /\ arg.standHeight > 45
  /\ arg.depth # defaultSettings.depth
  /\ res.rect = res.high
  /\ res.rect.h > res.low.h
  /\ res.rect.x > 0

(***************************************************************************)
(* Render-level specification: renderPlasterEffect is called again and     *)
(* again on one surface, with sources and settings drawn from bounded      *)
(* sets that include values outside the declared ranges.                   *)
(***************************************************************************)
Opaque(v) == RGBA(v, v, v, 255)

\* a uniform mid-gray source of the given resolution
MidGray(w, h) ==
  [width |-> w, height |-> h, data |-> [i \in 0..(w * h - 1) |-> Opaque(128)]]

\* a narrow source with highlights, shadows, colour and a transparent pixel
Portrait ==
  [width |-> 2, height |-> 3,
   data |-> (0 :> Opaque(250) @@ 1 :> Opaque(12) @@ 2 :> RGBA(255, 40, 0, 255)
             @@ 3 :> Transparent @@ 4 :> Opaque(90) @@ 5 :> Opaque(255))]

\* a wide source with hard edges
Landscape ==
  [width |-> 4, height |-> 2,
   data |-> (0 :> Opaque(0) @@ 1 :> Opaque(255) @@ 2 :> Opaque(0) @@ 3 :> Opaque(200)
             @@ 4 :> Opaque(255) @@ 5 :> Opaque(30) @@ 6 :> RGBA(10, 200, 90, 128)
             @@ 7 :> Opaque(0))]

Images == {Portrait, Landscape, MidGray(1, 1), MidGray(4, 2)}

SettingNames == DOMAIN defaultSettings

\* the declared range of each setting
RangeMin(f) == IF f = "luminosity" THEN -50 ELSE IF f = "standHeight" THEN 10 ELSE 0

RangeMax(f) ==
  IF f = "luminosity" THEN 50
  ELSE IF f = "macroZoom" THEN 60
  ELSE IF f = "standHeight" THEN 45
  ELSE 100

\* clamping each field to its declared range
ClampSettings(s) == [f \in SettingNames |-> clamp(s[f], RangeMin(f), RangeMax(f))]

\* how far outside its range a field is taken
Excess == 30

\* the defaults, the defaults without vignette, and the defaults with one
\* field at a time taken below and above its range
RenderSettings ==
  {defaultSettings, [defaultSettings EXCEPT !.vignette = 0]}
  \cup {[defaultSettings EXCEPT ![f] = RangeMin(f) - Excess] : f \in SettingNames}
  \cup {[defaultSettings EXCEPT ![f] = RangeMax(f) + Excess] : f \in SettingNames}

Faults == {"none", "drawImage", "getImageData"}

\* settings of the calls in which a drawing call throws
FaultSettings == {defaultSettings}

\* number of calls a run of the render-level specification makes
MaxCalls == 2

InitRender ==
  /\ PageInit
  /\ pc = "render"
  /\ arg = 0
  /\ res = Null

\* the surface after the call with outcome r, and the record of the call
Drawn(r, image, s, fault) ==
  /\ canvas' = r.canvas
  /\ ctxMode' = r.mode
  /\ call' = CallRecord(r, image, s, fault)

\* Between two calls the caller changes the source or the settings, as the
\* page does.
RenderCall(image, s, fault) ==
  /\ pc = "render"
  /\ arg < MaxCalls
  /\ arg' = arg + 1
  /\ (call.outcome # "none") => (image = call.source \/ s = call.settings)
  /\ fault # "none" => s \in FaultSettings
  /\ Drawn(renderPlasterEffect(canvas, ctxMode, image, s, fault), image, s, fault)
  /\ UNCHANGED <<settings, sourceImage, status, processedPreview, pending, lastAction, pc, res>>

NextRender == \E image \in Images, s \in RenderSettings, fault \in Faults : RenderCall(image, s, fault)

SpecRender == InitRender /\ [][NextRender]_vars

\* C1: every value the tone loop writes lies in [0,255] and every sample of
\* the normalised detail and Sobel fields lies in [0,1], for settings in and
\* out of range.
ToneAndFieldsInRange ==
  call.outcome = "ok" =>
    \A i \in Pixels :
      /\ call.tone[i] >= 0 /\ call.tone[i] <= 255 * U
      /\ call.data[i].r \in 0..255 /\ call.data[i].g \in 0..255 /\ call.data[i].b \in 0..255
      /\ call.normalisedDetail[i] >= 0 /\ call.normalisedDetail[i] <= NORM
      /\ call.normalisedSobel[i] >= 0 /\ call.normalisedSobel[i] <= NORM

\* a call with an out-of-range setting on a source with highlights and
\* shadows: the tone loop reaches both ends of the range and the detail
\* field both ends of the unit interval
ToneWitness ==
  /\ call.outcome = "ok"
  /\ call.settings # ClampSettings(call.settings)
  /\ \E i \in Pixels : call.tone[i] = 255 * U
  /\ \E i \in Pixels : call.tone[i] > 0 /\ call.tone[i] < 80 * U
  /\ \E i \in Pixels : call.normalisedDetail[i] = NORM
  /\ \E i \in Pixels : call.normalisedSobel[i] = NORM

\* the same call on a surface nothing has been drawn on
FreshRender(image, s, fault) == renderPlasterEffect(BlankCanvas, "source-over", image, s, fault)

\* C3: every setting is clamped to its declared range before use: the
\* output for settings s is the output for s with each field clamped.
ClampedBeforeUse ==
  call.outcome = "ok" =>
    canvas = FreshRender(call.source, ClampSettings(call.settings), "none").canvas

\* a finished call with a setting outside its range
ClampWitness ==
  /\ call.outcome = "ok"
  /\ call.settings.luminosity > 50
  /\ call.source = Portrait
  /\ canvas # FreshRender(call.source, defaultSettings, "none").canvas

\* C4: the surface after a call depends only on the source and settings of
\* that call, whatever was rendered on it before.
HistoryIndependent ==
  call.outcome # "none" =>
    canvas = FreshRender(call.source, call.settings, call.fault).canvas

\* a second call, on a surface that already holds a rendering, with a source
\* that has a transparent pixel through which earlier content could show
HistoryWitness ==
  /\ arg = 2
  /\ call.outcome = "ok"
  /\ call.source = Portrait
  /\ \E i \in Pixels : canvas[i].a < 255

\* the tone-curve shift alone: contrast transform and luminosity bias
ToneCurveOnly(v, s) ==
  clamp(contrastTransform(v, 30 * U + RoundDiv(depthStrength(s) * 90 * U, NORM))
        + luminosityShift(s), 0, 255 * U)

IsMidGrayCall ==
  /\ call.outcome = "ok"
  /\ \A k \in DOMAIN call.source.data : call.source.data[k] = Opaque(128)
  /\ call.settings = [defaultSettings EXCEPT !.vignette = 0]

\* C10 as stated: for a uniform mid-gray source with the default settings and
\* vignette 0 the tone-mapped output is uniform and is the input with only
\* the tone-curve shift applied.
MidGrayToneCurveOnly ==
  IsMidGrayCall =>
    \A i \in Pixels : call.tone[i] = ToneCurveOnly(128 * U, call.settings)

\* C10 amended: the output is uniform and the detail and contour fields are
\* all zero, but a zero field still enters the value: the detail term is
\* -0.5 * 80 * detailStrength, the contour term -0.4 * 140 * depthStrength,
\* and the shadow lift applies below 80.  The stored byte is 77, not 130.
MidGrayUniform ==
  IsMidGrayCall =>
    /\ \A i \in Pixels : call.normalisedDetail[i] = 0 /\ call.normalisedSobel[i] = 0
    /\ \A i, j \in Pixels : call.tone[i] = call.tone[j]
    /\ \A i \in Pixels :
         LET curve == ToneCurveOnly(128 * U, call.settings)
             micro == -RoundDiv(40 * detailStrength(call.settings) * U, NORM)
             contour == -RoundDiv(56 * depthStrength(call.settings) * U, NORM)
             dark == curve + micro + contour
             lifted == dark + RoundDiv((80 * U - dark) * 6 * matteStrength(call.settings), 10 * NORM)
         IN /\ dark < 80 * U
            /\ call.tone[i] = lifted
            /\ call.data[i].r = 77
            /\ ToUint8Clamped(curve) = 130

\* a mid-gray source of a resolution other than the frame's
MidGrayWitness ==
  /\ IsMidGrayCall
  /\ call.source.width = 4
  /\ call.source.height = 2
  /\ call.data[0].g = 77

\* pixels whose centre lies within the vignette's inner radius, 0.25 * width
\* around (width / 2, 0.55 * height)
CentralRegion ==
  {i \in Pixels :
     LET cx == (OUTPUT_WIDTH * GEO) \div 2
         cy == (OUTPUT_HEIGHT * GEO * 55) \div 100
         r0 == (OUTPUT_WIDTH * GEO * 25) \div 100
         dx == PX(i) * GEO + GEO \div 2 - cx
         dy == PY(i) * GEO + GEO \div 2 - cy
     IN dx * dx + dy * dy <= r0 * r0}

\* the overlays after the tone loop with no vignette step at all
WithoutVignette(data, s) ==
  baseShadow(standShadow(stand(data, "source-over", standRect(s)), standRect(s)),
             RoundDiv(OUTPUT_HEIGHT * GEO * 4, 100))

IsVignetteZeroCall == call.outcome = "ok" /\ call.settings.vignette = 0

\* C11: with vignette = 0 the radial-gradient overlay is skipped, and the
\* outputs for vignette = 0 and vignette = 1 on the same source and other
\* settings are equal at every pixel of the central region.
VignetteSparesCentre ==
  IsVignetteZeroCall =>
    /\ canvas = WithoutVignette(call.data, call.settings)
    /\ \A i \in CentralRegion :
         canvas[i] = FreshRender(call.source, [call.settings EXCEPT !.vignette = 1], "none").canvas[i]

\* a vignette-0 call whose output differs from the vignette-1 output at a
\* pixel of the outer frame, with a central region that is not empty
VignetteWitness ==
  /\ IsVignetteZeroCall
  /\ CentralRegion # {}
  /\ \E i \in Pixels \ CentralRegion :
       canvas[i] # FreshRender(call.source, [call.settings EXCEPT !.vignette = 1], "none").canvas[i]

(***************************************************************************)
(* The page                                                                *)
(***************************************************************************)
\* canvas.toDataURL("image/png"): PNG keeps every pixel of the surface
extractDataUrl(surface) == surface

\* a failed render still publishes the surface as the preview
tryRender_previewOnFailure(r, image, currentSettings, fault, cur) ==
  [processedPreview |-> extractDataUrl(r.canvas),
   status |-> IF r.threw THEN "error" ELSE "ready",
   canvas |-> r.canvas, ctxMode |-> r.mode,
   call |-> CallRecord(r, image.data, currentSettings, fault)]

\* lines 88-109: the try block around the call with outcome r: the preview
\* and the ready status after a return, the error status after a throw
tryRender(r, image, currentSettings, fault, cur) ==
  IF r.threw
  THEN [cur EXCEPT !.status = "error", !.canvas = r.canvas, !.ctxMode = r.mode,
                   !.call = CallRecord(r, image.data, currentSettings, fault)]
  ELSE [processedPreview |-> extractDataUrl(r.canvas), status |-> "ready",
        canvas |-> r.canvas, ctxMode |-> r.mode,
        call |-> CallRecord(r, image.data, currentSettings, fault)]

\* handleProcess(image, currentSettings), run by the effect on [sourceImage,
\* settings].  cur holds the state it reads and writes; fault names the call
\* that fails, if any.  isProcessing is set and cleared inside the handler
\* and is never observed in between.
handleProcess(image, currentSettings, fault, cur) ==
  IF image.sel = 0
  THEN [cur EXCEPT !.processedPreview = NoPreview]
  ELSE IF fault = "getContext"
  THEN [cur EXCEPT !.status = "error"]
  ELSE tryRender(renderPlasterEffect(cur.canvas, cur.ctxMode, image.data, currentSettings, fault),
                 image, currentSettings, fault, cur)

\* the state handleProcess works on, after the handler's own setters
Current(preview, tone) ==
  [processedPreview |-> preview, status |-> tone, canvas |-> canvas,
   ctxMode |-> ctxMode, call |-> call]

Effect(r) ==
  /\ processedPreview' = r.processedPreview
  /\ status' = r.status
  /\ canvas' = r.canvas
  /\ ctxMode' = r.ctxMode
  /\ call' = r.call

PageFaults == {"none", "getContext", "drawImage", "getImageData"}

\* files the user can pick, with their MIME type and decoded content
Files == {"bust.png", "frieze.jpg", "notes.txt"}

IsImageType(file) == file # "notes.txt"

Decoded(file) == IF file = "bust.png" THEN Portrait ELSE Landscape

\* slider positions the user moves to
SliderMoves ==
  {[field |-> "vignette", value |-> 0]}

\* number of file selections in a run
MaxSelections == 2

Init ==
  /\ PageInit
  /\ pc = "page"
  /\ arg = Null
  /\ res = Null

\* SliderControl onChange -> setSettings -> effect
SliderChange(move, fault) ==
  /\ pc = "page"
  /\ settings[move.field] # move.value
  /\ sourceImage = NoImage => fault = "none"
  /\ settings' = [settings EXCEPT ![move.field] = move.value]
  /\ Effect(handleProcess(sourceImage, settings', fault, Current(processedPreview, status)))
  /\ UNCHANGED <<sourceImage, pending, lastAction, fnVars>>

\* handleFileSelection up to the await: the type check, the status, and the
\* load started by createImageElement
SelectFile(file) ==
  /\ pc = "page"
  /\ lastAction.sel < MaxSelections
  /\ lastAction' = [lastAction EXCEPT !.kind = "select", !.sel = lastAction.sel + 1]
  /\ IF IsImageType(file)
     THEN /\ status' = "processing"
          /\ pending' = pending \cup {[sel |-> lastAction.sel + 1, file |-> file]}
     ELSE /\ status' = "error"
          /\ pending' = pending
  /\ UNCHANGED <<settings, sourceImage, processedPreview, canvas, ctxMode, call, fnVars>>

\* image.onload: the promise resolves, setSourceImage(image) -> effect
LoadResolved(load, fault) ==
  /\ pc = "page"
  /\ load \in pending
  /\ pending' = pending \ {load}
  /\ sourceImage' = [sel |-> load.sel, data |-> Decoded(load.file)]
  /\ Effect(handleProcess(sourceImage', settings, fault, Current(processedPreview, status)))
  /\ UNCHANGED <<settings, lastAction, fnVars>>

\* reader.onerror / image.onerror: the promise rejects
LoadRejected(load) ==
  /\ pc = "page"
  /\ load \in pending
  /\ pending' = pending \ {load}
  /\ status' = "error"
  /\ UNCHANGED <<settings, sourceImage, processedPreview, canvas, ctxMode, call, lastAction, fnVars>>

\* reset (the button is rendered only while there is a preview) -> effect
reset ==
  /\ pc = "page"
  /\ processedPreview # NoPreview
  /\ sourceImage' = NoImage
  /\ settings' = defaultSettings
  /\ lastAction' = [lastAction EXCEPT !.kind = "reset", !.resetAt = lastAction.sel]
  /\ Effect(handleProcess(NoImage, defaultSettings, "none", Current(NoPreview, "idle")))
  /\ UNCHANGED <<pending, fnVars>>

Next ==
  \/ \E move \in SliderMoves, fault \in PageFaults : SliderChange(move, fault)
  \/ \E file \in Files : SelectFile(file)
  \/ \E load \in pending, fault \in PageFaults : LoadResolved(load, fault)
  \/ \E load \in pending : LoadRejected(load)
  \/ reset

Spec == Init /\ [][Next]_vars

\* a step in which renderPlasterEffect was called and threw
RenderThrew == call'.outcome = "threw" /\ <<canvas, call>>' # <<canvas, call>>

\* C2 as stated: a failed render is reported as the error status and leaves
\* the surface either completely rendered or exactly as it was.
FailedRenderLeavesNoPartialOutput ==
  [][RenderThrew =>
       /\ status' = "error"
       /\ \/ canvas' = canvas
          \/ canvas' = renderPlasterEffect(canvas, ctxMode, call'.source,
                                           call'.settings, "none").canvas]_vars

\* C2 amended: a failed render is reported as the error status and the
\* preview keeps what it showed before the call; the work canvas itself is
\* left cleared, with the background and, if getImageData threw, the
\* untoned source drawn on it.
FailedRenderKeepsPreview ==
  [][RenderThrew =>
       /\ status' = "error"
       /\ processedPreview' = processedPreview
       /\ canvas' = renderPlasterEffect(canvas, ctxMode, call'.source,
                                        call'.settings, call'.fault).canvas
       /\ canvas' # renderPlasterEffect(canvas, ctxMode, call'.source,
                                        call'.settings, "none").canvas]_vars

\* a failed render after a finished one: the preview still shows the
\* finished rendering while the canvas holds something else
FailedRenderWitness ==
  /\ call.outcome = "threw"
  /\ status = "error"
  /\ processedPreview # NoPreview
  /\ processedPreview # canvas

\* a step in which a finished load installs its image
ImageInstalled == sourceImage' # sourceImage /\ sourceImage' # NoImage

\* C13: once all pending loads have finished the held image is the one of
\* the most recent user action: no image of a selection made before the last
\* reset is held, and a finished load never replaces the image of a later
\* selection nor undoes a later reset.
LatestActionWins ==
  /\ [](pending = {} /\ sourceImage # NoImage => sourceImage.sel > lastAction.resetAt)
  /\ [][ImageInstalled =>
           /\ sourceImage'.sel > sourceImage.sel
           /\ sourceImage'.sel > lastAction.resetAt]_vars

\* every load has finished, reset was the last action, and the image of a
\* file selected before the reset is held and rendered
StaleImageAfterReset ==
  /\ pending = {}
  /\ lastAction.kind = "reset"
  /\ sourceImage # NoImage
  /\ processedPreview # NoPreview

====
